---- MODULE Spec2Model ----
(***************************************************************************)
(* Model of src/app.py: the normalisation and metrics pipeline of the      *)
(* SupplyChain AI Starter Kit (validate_columns, normalize_df,             *)
(* compute_metrics and the PROCESSING section that chains them).           *)
(*                                                                         *)
(* Cells of the uploaded table are sequences of one-character strings, so  *)
(* that lower-casing, trimming and number parsing are computed and not     *)
(* assumed.  A missing cell (NaN / None) is the empty sequence.            *)
(*                                                                         *)
(* Floating-point values are records [k, n, d]: k = "fin" is the rational  *)
(* n/d (d > 0, lowest terms), k = "inf" / "ninf" / "nan" are the IEEE      *)
(* specials.  Arithmetic on finite values is exact; square roots are       *)
(* carried to SqrtScale-ths.                                               *)
(***************************************************************************)
EXTENDS Integers, Sequences, FiniteSets, TLC

(***************************************************************************)
(* State of one run of the script.  pc is the position in the PROCESSING   *)
(* section, ran the calls made so far, reported what st.error showed or    *)
(* the exception that ended the run.  astype_keeps_na is the behaviour of  *)
(* the installed pandas, which the repository does not pin: astype(str)    *)
(* renders a missing value as the text "nan" (pandas 1 and 2) or keeps it  *)
(* missing (pandas 3 string dtype).  bdim is the frame of a call of        *)
(* business_days_in_month: its position, arguments and locals.             *)
(***************************************************************************)
VARIABLES pc, df_raw, workdays, missing, df, metrics, reported, ran, astype_keeps_na,
          bdim

vars == <<pc, df_raw, workdays, missing, df, metrics, reported, ran, astype_keeps_na,
          bdim>>

(***************************************************************************)
(* Bounds of the model                                                     *)
(***************************************************************************)
MaxRows == 2

SqrtScale == 100

(***************************************************************************)
(* Floating-point values                                                   *)
(***************************************************************************)
Abs(x) == IF x < 0 THEN -x ELSE x

RECURSIVE GCD(_, _)
GCD(a, b) == IF b = 0 THEN a ELSE GCD(b, a % b)

Norm(n, d) ==
    LET g == GCD(Abs(n), d)
    IN  [k |-> "fin", n |-> n \div g, d |-> d \div g]

IntF(i) == [k |-> "fin", n |-> i, d |-> 1]

NaN == [k |-> "nan", n |-> 0, d |-> 1]

PInf == [k |-> "inf", n |-> 0, d |-> 1]

NInf == [k |-> "ninf", n |-> 0, d |-> 1]

Zero == IntF(0)

isna(x) == x.k = "nan"

IsFinite(x) == x.k = "fin"

Sgn(x) ==
    CASE x.k = "inf" -> 1
      [] x.k = "ninf" -> -1
      [] x.k = "fin" -> (IF x.n > 0 THEN 1 ELSE IF x.n < 0 THEN -1 ELSE 0)
      [] OTHER -> 0

Signed(s) == IF s = 0 THEN NaN ELSE IF s > 0 THEN PInf ELSE NInf

FMul(a, b) ==
    IF isna(a) \/ isna(b) THEN NaN
    ELSE IF IsFinite(a) /\ IsFinite(b) THEN Norm(a.n * b.n, a.d * b.d)
    ELSE Signed(Sgn(a) * Sgn(b))

FAdd(a, b) ==
    IF isna(a) \/ isna(b) THEN NaN
    ELSE IF IsFinite(a) /\ IsFinite(b) THEN Norm(a.n * b.d + b.n * a.d, a.d * b.d)
    ELSE IF IsFinite(a) THEN b
    ELSE IF IsFinite(b) \/ a.k = b.k THEN a
    ELSE NaN

FSub(a, b) == FAdd(a, FMul(IntF(-1), b))

\* numpy true division: x / 0.0 is +-inf, 0 / 0.0 is nan, no exception
FDiv(a, b) ==
    IF isna(a) \/ isna(b) THEN NaN
    ELSE IF IsFinite(a) /\ IsFinite(b)
         THEN IF b.n = 0 THEN Signed(Sgn(a))
              ELSE Norm(a.n * b.d * Sgn(b), a.d * Abs(b.n))
    ELSE IF IsFinite(a) THEN Zero
    ELSE IF IsFinite(b) THEN Signed(Sgn(a) * (IF b.n < 0 THEN -1 ELSE 1))
    ELSE NaN

\* a < b on floats: every comparison with nan is false
FLt(a, b) ==
    IF isna(a) \/ isna(b) THEN FALSE
    ELSE IF IsFinite(a) /\ IsFinite(b) THEN a.n * b.d < b.n * a.d
    ELSE IF a.k = b.k THEN FALSE
    ELSE a.k = "ninf" \/ b.k = "inf"

FGe(a, b) ==
    IF isna(a) \/ isna(b) THEN FALSE ELSE ~FLt(a, b)

\* variant of Ceil: int(x), which truncates toward zero
CeilTruncates(x) == IF x.n >= 0 THEN x.n \div x.d ELSE -((-(x.n)) \div x.d)

\* math.ceil of a finite float
Ceil(x) == -((-(x.n)) \div x.d)

IsInteger(x) == IsFinite(x) /\ x.d = 1

\* Python max(0.0, x): x only when x > 0.0, so max(0.0, nan) is 0.0
Max0(x) == IF FLt(Zero, x) THEN x ELSE Zero

\* Series.clip(lower=0): nan stays nan
ClipLower0(x) == IF FLt(x, Zero) THEN Zero ELSE x

RECURSIVE ISqrtIn(_, _, _)
ISqrtIn(m, lo, hi) ==
    IF lo >= hi THEN lo
    ELSE LET mid == (lo + hi + 1) \div 2
         IN  IF mid * mid <= m THEN ISqrtIn(m, mid, hi) ELSE ISqrtIn(m, lo, mid - 1)

ISqrt(m) == ISqrtIn(m, 0, IF m < 46340 THEN m ELSE 46340)

\* math.sqrt of a finite float >= 0, to SqrtScale-ths
Sqrt(x) == Norm(ISqrt((x.n * SqrtScale * SqrtScale) \div x.d), SqrtScale)

\* Series.round(2): round half to even at two decimals
Round2(x) ==
    IF ~IsFinite(x) THEN x
    ELSE LET h == x.n * 100
             f == h \div x.d
             r == 2 * (h - f * x.d)
         IN  Norm(IF r < x.d THEN f
                  ELSE IF r > x.d THEN f + 1
                  ELSE IF f % 2 = 0 THEN f ELSE f + 1, 100)

(***************************************************************************)
(* Strings                                                                 *)
(***************************************************************************)
Missing == <<>>

UpperChars == <<"A","B","C","D","E","F","G","H","I","J","K","L","M",
                "N","O","P","Q","R","S","T","U","V","W","X","Y","Z">>

LowerChars == <<"a","b","c","d","e","f","g","h","i","j","k","l","m",
                "n","o","p","q","r","s","t","u","v","w","x","y","z">>

DigitChars == <<"0","1","2","3","4","5","6","7","8","9">>

IsSpace(c) == c = " "

LowerChar(c) ==
    IF \E i \in 1..26 : UpperChars[i] = c
    THEN LowerChars[CHOOSE i \in 1..26 : UpperChars[i] = c]
    ELSE c

\* str.lower
lower(s) == [i \in 1..Len(s) |-> LowerChar(s[i])]

RECURSIVE LStrip(_)
LStrip(s) == IF s # <<>> /\ IsSpace(Head(s)) THEN LStrip(Tail(s)) ELSE s

RECURSIVE RStrip(_)
RStrip(s) ==
    IF s # <<>> /\ IsSpace(s[Len(s)]) THEN RStrip(SubSeq(s, 1, Len(s) - 1)) ELSE s

\* str.strip
strip(s) == RStrip(LStrip(s))

\* Series.astype(str) on one cell: a missing cell becomes the text "nan",
\* or stays missing, as the installed pandas has it
astype_str(cell) ==
    IF cell = Missing /\ ~astype_keeps_na THEN <<"n","a","n">> ELSE cell

IsDigit(c) == \E i \in 1..10 : DigitChars[i] = c

DigitVal(c) == (CHOOSE i \in 1..10 : DigitChars[i] = c) - 1

RECURSIVE DigitsVal(_)
DigitsVal(ds) ==
    IF ds = <<>> THEN 0
    ELSE DigitsVal(SubSeq(ds, 1, Len(ds) - 1)) * 10 + DigitVal(ds[Len(ds)])

RECURSIVE Pow10(_)
Pow10(e) == IF e = 0 THEN 1 ELSE 10 * Pow10(e - 1)

AllDigits(s) == \A i \in 1..Len(s) : IsDigit(s[i])

\* pd.to_numeric(errors="coerce") on one cell: [sign] digits [. digits] or
\* [sign] inf; anything else, and a missing cell, becomes nan.  (Exponents
\* are not modelled.)
to_numeric(cell) ==
    LET t == strip(cell)
        neg == t # <<>> /\ Head(t) = "-"
        u == IF t # <<>> /\ Head(t) \in {"-", "+"} THEN Tail(t) ELSE t
        dots == {i \in 1..Len(u) : u[i] = "."}
        p == IF dots = {} THEN Len(u) + 1 ELSE CHOOSE i \in dots : TRUE
        ip == SubSeq(u, 1, p - 1)
        fp == SubSeq(u, p + 1, Len(u))
        ok == /\ Cardinality(dots) <= 1
              /\ AllDigits(ip) /\ AllDigits(fp)
              /\ Len(ip) + Len(fp) >= 1
        v == Norm(DigitsVal(ip \o fp), Pow10(Len(fp)))
    IN  IF lower(u) \in {<<"i","n","f">>, <<"i","n","f","i","n","i","t","y">>}
        THEN (IF neg THEN NInf ELSE PInf)
        ELSE IF ~ok THEN NaN
        ELSE IF neg THEN FMul(IntF(-1), v) ELSE v

(***************************************************************************)
(* Text constants                                                          *)
(***************************************************************************)
T_alta == <<"a","l","t","a">>

T_media == <<"m","e","d","i","a">>

T_bassa == <<"b","a","s","s","a">>

T_alto == <<"a","l","t","o">>

T_medio == <<"m","e","d","i","o">>

T_basso == <<"b","a","s","s","o">>

T_si == <<"s","i">>

T_si_accent == <<"s","ì">>

T_no == <<"n","o">>

T_yes == <<"y","e","s">>

T_y == <<"y">>

T_true == <<"t","r","u","e">>

T_1 == <<"1">>

T_high == <<"h","i","g","h">>

T_medium == <<"m","e","d","i","u","m">>

T_low == <<"l","o","w">>

(***************************************************************************)
(* Columns                                                                 *)
(***************************************************************************)
REQUIRED_COLS ==
    <<"articolo", "consumo_mensile", "lead_time_giorni", "stock_attuale",
      "criticita", "valore_unitario">>

OPTIONAL_DEFAULTS ==
    [stagionale |-> T_no,
     indice_rotazione |-> <<"8",".","0">>,
     deviazione_standard |-> Missing,
     livello_servizio |-> T_medio]

Range(s) == {s[i] : i \in DOMAIN s}

TEMPLATE_HEADERS == Range(REQUIRED_COLS) \cup DOMAIN OPTIONAL_DEFAULTS

NumericCols ==
    {"consumo_mensile", "lead_time_giorni", "stock_attuale", "valore_unitario",
     "indice_rotazione", "deviazione_standard"}

(***************************************************************************)
(* business_days_in_month, on proleptic Gregorian ordinals as datetime.date *)
(***************************************************************************)
YearMin == 2020

YearMax == 2100

IsLeap(y) == y % 4 = 0 /\ (y % 100 # 0 \/ y % 400 = 0)

DaysInMonth(y, m) ==
    IF m = 2 THEN (IF IsLeap(y) THEN 29 ELSE 28)
    ELSE IF m \in {4, 6, 9, 11} THEN 30 ELSE 31

RECURSIVE DaysBeforeMonth(_, _)
DaysBeforeMonth(y, m) ==
    IF m = 1 THEN 0 ELSE DaysBeforeMonth(y, m - 1) + DaysInMonth(y, m - 1)

toordinal(y, m, d) ==
    LET p == y - 1
    IN  p * 365 + p \div 4 - p \div 100 + p \div 400 + DaysBeforeMonth(y, m) + d

\* date.weekday(): Monday is 0
weekday(ord) == (ord + 6) % 7

RECURSIVE CountWeekdays(_, _, _)
CountWeekdays(cur, end, count) ==
    IF cur < end
    THEN CountWeekdays(cur + 1, end, IF weekday(cur) < 5 THEN count + 1 ELSE count)
    ELSE count

\* variant of MonthEnd: December does not roll over to the next year
MonthEndSameYear(year, month) == toordinal(year, (month % 12) + 1, 1)

\* line 119, as an ordinal
MonthEnd(year, month) ==
    IF month = 12 THEN toordinal(year + 1, 1, 1) ELSE toordinal(year, month + 1, 1)

business_days_in_month(year, month) ==
    CountWeekdays(toordinal(year, month, 1), MonthEnd(year, month), 0)

\* no call of business_days_in_month in progress
NoFrame == [pc |-> "none", year |-> 0, month |-> 0, cur |-> 0, end |-> 0, count |-> 0]

(***************************************************************************)
(* validate_columns and normalize_df.  A table is [cols, rows]: the set of *)
(* column names and the sequence of rows, each a function from cols to     *)
(* cells.                                                                  *)
(***************************************************************************)
\* variant of validate_columns: the fifth required column is not looked for
validate_columns_short(frame) ==
    SelectSeq(SubSeq(REQUIRED_COLS, 1, 4) \o SubSeq(REQUIRED_COLS, 6, 6),
              LAMBDA c : c \notin frame.cols)

validate_columns(frame) == SelectSeq(REQUIRED_COLS, LAMBDA c : c \notin frame.cols)

\* lines 146-148: an absent optional column is filled with its default
Cell(frame, i, c) == IF c \in frame.cols THEN frame.rows[i][c] ELSE OPTIONAL_DEFAULTS[c]

norm_criticita(cell) ==
    LET s == strip(lower(astype_str(cell)))
    IN  CASE s = T_alto -> T_alta
          [] s = T_medio -> T_media
          [] s = T_basso -> T_bassa
          [] OTHER -> s

norm_stagionale(cell) ==
    LET s == strip(lower(astype_str(cell)))
        t == IF s \in {T_si_accent, T_yes, T_y, T_true, T_1} THEN T_si ELSE s
    IN  IF t \in {T_si, T_no} THEN t ELSE T_no

norm_livello_servizio(cell) ==
    LET s == strip(lower(astype_str(cell)))
        t == CASE s = T_high -> T_alto
               [] s = T_medium -> T_medio
               [] s = T_low -> T_basso
               [] OTHER -> s
    IN  IF t \in {T_alto, T_medio, T_basso} THEN t ELSE T_medio

\* lines 146-166 on row i; index is the pandas index label (0-based position)
NormRow(frame, i) ==
    [index |-> i - 1,
     articolo |-> Cell(frame, i, "articolo"),
     consumo_mensile |-> to_numeric(Cell(frame, i, "consumo_mensile")),
     lead_time_giorni |-> to_numeric(Cell(frame, i, "lead_time_giorni")),
     stock_attuale |-> to_numeric(Cell(frame, i, "stock_attuale")),
     criticita |-> norm_criticita(Cell(frame, i, "criticita")),
     valore_unitario |-> to_numeric(Cell(frame, i, "valore_unitario")),
     stagionale |-> norm_stagionale(Cell(frame, i, "stagionale")),
     indice_rotazione |-> to_numeric(Cell(frame, i, "indice_rotazione")),
     deviazione_standard |-> to_numeric(Cell(frame, i, "deviazione_standard")),
     livello_servizio |-> norm_livello_servizio(Cell(frame, i, "livello_servizio"))]

\* a value dropna counts as missing: a missing cell or a nan number
IsNA(r, c) == IF c \in NumericCols THEN isna(r[c]) ELSE r[c] = Missing

\* line 169: dropna(subset=REQUIRED_COLS)
dropna(rows) ==
    SelectSeq(rows, LAMBDA r : \A j \in DOMAIN REQUIRED_COLS : ~IsNA(r, REQUIRED_COLS[j]))

normalize_df(frame) == dropna([i \in DOMAIN frame.rows |-> NormRow(frame, i)])

(***************************************************************************)
(* Factors (lines 173-192)                                                 *)
(***************************************************************************)
z_from_service(level) ==
    CASE level = T_basso -> Norm(104, 100)
      [] level = T_medio -> Norm(165, 100)
      [] level = T_alto -> Norm(205, 100)
      [] OTHER -> Norm(165, 100)

crit_factor(crit) ==
    CASE crit = T_bassa -> Norm(9, 10)
      [] crit = T_media -> IntF(1)
      [] crit = T_alta -> Norm(11, 10)
      [] OTHER -> IntF(1)

rotation_factor(rot) ==
    IF isna(rot) THEN IntF(1)
    ELSE IF FGe(rot, IntF(12)) THEN Norm(110, 100)
    ELSE IF FGe(rot, IntF(6)) THEN IntF(1)
    ELSE Norm(90, 100)

season_factor(stagionale) == IF stagionale = T_si THEN Norm(115, 100) ELSE IntF(1)

(***************************************************************************)
(* compute_metrics (lines 195-237), column by column as pandas runs it.    *)
(* Called with workdays >= 0 for the columns that take a square root.      *)
(***************************************************************************)
\* lines 198-210
BaseColumns(r, wd) ==
    LET consumo_giornaliero == FDiv(r.consumo_mensile, IntF(wd))
        domanda_lt == FMul(consumo_giornaliero, r.lead_time_giorni)
        sigma_daily == FDiv(r.deviazione_standard, Sqrt(IntF(wd)))
        sqrt_lt == Sqrt(ClipLower0(r.lead_time_giorni))
        z == z_from_service(r.livello_servizio)
    IN  [consumo_giornaliero |-> consumo_giornaliero,
         domanda_lt |-> domanda_lt,
         sigma_daily |-> sigma_daily,
         sqrt_lt |-> sqrt_lt,
         z |-> z,
         ss_base |-> FMul(FMul(z, sigma_daily), sqrt_lt),
         fatt_stag |-> season_factor(r.stagionale),
         fatt_rot |-> rotation_factor(r.indice_rotazione),
         fatt_crit |-> crit_factor(r.criticita)] @@ r

\* variant of ss_final: the fallback is not scaled by season and rotation
ss_final_unscaled(row) ==
    IF isna(row.deviazione_standard) \/ isna(row.sigma_daily)
    THEN LET base_pct == IF row.criticita = T_alta THEN Norm(50, 100)
                         ELSE IF row.criticita = T_media THEN Norm(30, 100)
                         ELSE Norm(15, 100)
         IN  FMul(row.domanda_lt, base_pct)
    ELSE Max0(FMul(FMul(FMul(row.ss_base, row.fatt_stag), row.fatt_rot), row.fatt_crit))

\* lines 212-217
ss_final(row) ==
    IF isna(row.deviazione_standard) \/ isna(row.sigma_daily)
    THEN LET base_pct == IF row.criticita = T_alta THEN Norm(50, 100)
                         ELSE IF row.criticita = T_media THEN Norm(30, 100)
                         ELSE Norm(15, 100)
         IN  FMul(FMul(FMul(row.domanda_lt, base_pct), row.fatt_stag), row.fatt_rot)
    ELSE Max0(FMul(FMul(FMul(row.ss_base, row.fatt_stag), row.fatt_rot), row.fatt_crit))

\* line 219
WithSafetyStock(r, wd) ==
    LET b == BaseColumns(r, wd)
    IN  [scorta_sicurezza |-> ss_final(b)] @@ b

\* the argument of int(math.ceil(x)) at line 221
ReorderLevel(row) == FAdd(row.domanda_lt, row.scorta_sicurezza)

\* variant of risk: the reorder point is tested before the lead-time demand
risk_medio_first(r) ==
    IF FLt(r.stock_attuale, IntF(r.punto_riordino)) THEN "medio"
    ELSE IF FLt(r.stock_attuale, r.domanda_lt) THEN "alto"
    ELSE "basso"

\* variant of risk: a stock equal to the reorder point still counts as below it
risk_at_reorder_point(r) ==
    IF FLt(r.stock_attuale, r.domanda_lt) THEN "alto"
    ELSE IF ~FLt(IntF(r.punto_riordino), r.stock_attuale) THEN "medio"
    ELSE "basso"

\* lines 224-229
risk(r) ==
    IF FLt(r.stock_attuale, r.domanda_lt) THEN "alto"
    ELSE IF FLt(r.stock_attuale, IntF(r.punto_riordino)) THEN "medio"
    ELSE "basso"

\* variant of qty_suggerita: the difference is not clipped at zero
qty_suggerita_unclipped(punto_riordino, stock_attuale) ==
    Ceil(FSub(IntF(punto_riordino), stock_attuale))

\* the argument of int(math.ceil(x)) at line 222
Clipped(punto_riordino, stock_attuale) ==
    ClipLower0(FSub(IntF(punto_riordino), stock_attuale))

\* line 222
qty_suggerita(punto_riordino, stock_attuale) ==
    Ceil(Clipped(punto_riordino, stock_attuale))

\* lines 221-235 on a row whose reorder level is finite
Derived(row) ==
    LET punto_riordino == Ceil(ReorderLevel(row))
        qty == qty_suggerita(punto_riordino, row.stock_attuale)
        r1 == [punto_riordino |-> punto_riordino, qty_suggerita |-> qty] @@ row
        valore_unitario == Round2(row.valore_unitario)
    IN  [rischio_stockout |-> risk(r1),
         valore_unitario |-> valore_unitario,
         valore_ordine_suggerito |-> Round2(FMul(IntF(qty), valore_unitario)),
         capitale_immobilizzato |-> Round2(FMul(row.stock_attuale, valore_unitario))]
        @@ r1

\* math.ceil(inf) is OverflowError, math.ceil(nan) is ValueError
CeilError(x) == IF isna(x) THEN "ValueError" ELSE "OverflowError"

First(S) == CHOOSE j \in S : \A l \in S : j <= l

\* compute_metrics(df, workdays) on a non-empty df.  The result records the
\* outcome ("returned" or the exception raised), the source line that raised,
\* the source lines of the statements run so far, and the returned rows.
compute_metrics(frame, wd) ==
    IF wd < 0
    THEN \* math.sqrt of a negative number, after lines 198-199 have run
         [outcome |-> "ValueError", line |-> 202, steps |-> <<198, 199, 202>>,
          rows |-> <<>>]
    ELSE LET ss == [i \in DOMAIN frame |-> WithSafetyStock(frame[i], wd)]
             bad221 == {i \in DOMAIN ss : ~IsFinite(ReorderLevel(ss[i]))}
             bad222 == {i \in DOMAIN ss :
                          ~IsFinite(Clipped(Ceil(ReorderLevel(ss[i])), ss[i].stock_attuale))}
         IN  IF bad221 # {}
             THEN [outcome |-> CeilError(ReorderLevel(ss[First(bad221)])),
                   line |-> 221,
                   steps |-> <<198, 199, 202, 203, 205, 206, 208, 209, 210,
                               219, 221>>,
                   rows |-> <<>>]
             ELSE IF bad222 # {}
             THEN [outcome |-> CeilError(Clipped(Ceil(ReorderLevel(ss[First(bad222)])),
                                                 ss[First(bad222)].stock_attuale)),
                   line |-> 222,
                   steps |-> <<198, 199, 202, 203, 205, 206, 208, 209, 210,
                               219, 221, 222>>,
                   rows |-> <<>>]
             ELSE [outcome |-> "returned", line |-> 237,
                   steps |-> <<198, 199, 202, 203, 205, 206, 208, 209, 210,
                               219, 221, 222, 231, 233, 234, 235, 237>>,
                   rows |-> [i \in DOMAIN ss |-> Derived(ss[i])]]

(***************************************************************************)
(* Uploaded tables the model draws from                                    *)
(***************************************************************************)
RawRow(art, cm, lt, st, cr, vu, sg, ir, ds, ls) ==
    [articolo |-> art, consumo_mensile |-> cm, lead_time_giorni |-> lt,
     stock_attuale |-> st, criticita |-> cr, valore_unitario |-> vu,
     stagionale |-> sg, indice_rotazione |-> ir, deviazione_standard |-> ds,
     livello_servizio |-> ls]

A001 == <<"A","0","0","1">>

\* every required field varies; the optional cells are empty
RequiredRows ==
    {RawRow(A001, cm, lt, st, cr, vu, Missing, Missing, Missing, Missing) :
        cm \in {<<"1","0","0">>, <<"a","b","c">>, <<"-","1","0","0">>, <<"0">>},
        lt \in {<<"1","0">>, <<"0">>},
        st \in {<<"2","0">>, <<"5","0">>, <<"7","0">>, <<"2","0",".","5">>},
        cr \in {<<"a","l","t","a">>, <<" ","M","e","d","i","o"," ">>, <<"B","A","S","S","O">>, <<"h","i","g","h">>, <<>>},
        vu \in {<<"1","0",".","5","0">>, <<"3">>, <<"1","0",",","5","0">>}}

\* every optional field varies
OptionalRows ==
    {RawRow(A001, <<"1","0","0">>, lt, st, cr, <<"1","0",".","5","0">>, sg, ir, ds, ls) :
        lt \in {<<"1","0">>, <<"-","4">>},
        st \in {<<"2","0">>, <<"7","0">>},
        cr \in {<<"a","l","t","a">>, <<"h","i","g","h">>},
        sg \in {<<"Y","e","s">>, <<"n","o">>},
        ir \in {<<"1","2">>, <<"4">>, <<>>},
        ds \in {<<"1","5">>, <<"n","/","a">>, <<"-","1","5">>},
        ls \in {<<"a","l","t","o">>, <<"L","o","w">>}}

\* rows of the longer tables
PairRows ==
    {RawRow(A001, cm, <<"1","0">>, st, <<"a","l","t","a">>, vu, Missing, Missing, Missing, Missing) :
        cm \in {<<"1","0","0">>, <<"a","b","c">>},
        st \in {<<"2","0">>, <<"5","0">>, <<"7","0">>},
        vu \in {<<"1","0",".","5","0">>, <<"3">>}}

\* rows that differ in deviazione_standard only
DevRows ==
    {RawRow(A001, <<"1","0","0">>, <<"1","0">>, <<"2","0">>, <<"a","l","t","a">>, <<"1","0",".","5","0">>, Missing, Missing, ds, Missing) :
        ds \in {<<"1","5">>, <<"n","/","a">>}}

\* rows with an infinite number
InfRows ==
    {RawRow(A001, <<"i","n","f">>, <<"1","0">>, <<"2","0">>, <<"a","l","t","a">>, <<"3">>, Missing, Missing, Missing, Missing),
     RawRow(A001, <<"1","0","0">>, <<"1","0">>, <<"i","n","f">>, <<"a","l","t","a">>, <<"3">>, Missing, Missing, Missing, Missing),
     RawRow(A001, <<"1","0","0">>, <<"1","0">>, <<"-","i","n","f">>, <<"a","l","t","a">>, <<"3">>, Missing, Missing, Missing, Missing),
     RawRow(A001, <<"1","0","0">>, <<"1","0">>, <<"2","0">>, <<"a","l","t","a">>, <<"3">>, Missing, Missing, <<"I","n","f">>, Missing)}

NoArticoloRows == {[r EXCEPT !.articolo = Missing] : r \in PairRows}

ColSets ==
    {Range(REQUIRED_COLS),
     TEMPLATE_HEADERS \ {"deviazione_standard"},
     TEMPLATE_HEADERS \ {"criticita"},
     TEMPLATE_HEADERS \ {"criticita", "consumo_mensile"},
     TEMPLATE_HEADERS \ {"articolo", "valore_unitario", "stagionale"}}

Restrict(r, cols) == [c \in cols |-> r[c]]

Table(cols, rows) == [cols |-> cols, rows |-> [i \in DOMAIN rows |-> Restrict(rows[i], cols)]]

RawTables ==
    {Table(TEMPLATE_HEADERS, <<r>>) : r \in RequiredRows \cup OptionalRows \cup NoArticoloRows \cup InfRows}
    \cup {Table(TEMPLATE_HEADERS, rows) : rows \in UNION {[1..n -> PairRows] : n \in 2..MaxRows}}
    \cup {Table(TEMPLATE_HEADERS, rows) : rows \in [1..2 -> DevRows]}
    \cup {Table(cs, <<r>>) : cs \in ColSets, r \in PairRows}

\* what the sidebar can pass as workdays (lines 537-539)
AppWorkdays ==
    {business_days_in_month(year, month) : year \in YearMin..YearMax, month \in 1..12}

\* workdays of direct calls of compute_metrics
CallWorkdays == {-1, 0, 1, 20, 22}

(***************************************************************************)
(* The PROCESSING section (lines 570-581) as a state machine               *)
(***************************************************************************)
NotCalled == [outcome |-> "none", line |-> 0, steps |-> <<>>, rows |-> <<>>]

\* the script after load_data (line 570), workdays set by the sidebar
Init ==
    /\ pc = "validate"
    /\ df_raw \in RawTables
    /\ workdays \in AppWorkdays
    /\ missing = <<>>
    /\ df = <<>>
    /\ metrics = NotCalled
    /\ reported = "nothing"
    /\ ran = <<>>
    /\ astype_keeps_na \in BOOLEAN
    /\ bdim = NoFrame

\* line 571
ValidateColumns ==
    /\ pc = "validate"
    /\ missing' = validate_columns(df_raw)
    /\ pc' = "validated"
    /\ ran' = Append(ran, "validate_columns")
    /\ UNCHANGED <<df_raw, workdays, df, metrics, reported, astype_keeps_na, bdim>>

\* lines 572-574
HaltMissing ==
    /\ pc = "validated"
    /\ missing # <<>>
    /\ reported' = "Colonne mancanti"
    /\ pc' = "stopped"
    /\ UNCHANGED <<df_raw, workdays, missing, df, metrics, ran, astype_keeps_na, bdim>>

\* line 576; indexing an absent required column raises KeyError
NormalizeDf ==
    /\ pc = "validated"
    /\ missing = <<>>
    /\ ran' = Append(ran, "normalize_df")
    /\ IF Range(REQUIRED_COLS) \subseteq df_raw.cols
       THEN /\ df' = normalize_df(df_raw)
            /\ pc' = "normalized"
            /\ reported' = reported
       ELSE /\ df' = df
            /\ pc' = "raised"
            /\ reported' = "KeyError"
    /\ UNCHANGED <<df_raw, workdays, missing, metrics, astype_keeps_na, bdim>>

\* lines 577-579
HaltEmpty ==
    /\ pc = "normalized"
    /\ df = <<>>
    /\ reported' = "Nessuna riga valida trovata"
    /\ pc' = "stopped"
    /\ UNCHANGED <<df_raw, workdays, missing, df, metrics, ran, astype_keeps_na, bdim>>

\* line 581
ComputeMetrics ==
    /\ pc = "normalized"
    /\ df # <<>>
    /\ metrics' = compute_metrics(df, workdays)
    /\ pc' = IF metrics'.outcome = "returned" THEN "computed" ELSE "raised"
    /\ reported' = IF metrics'.outcome = "returned" THEN reported ELSE metrics'.outcome
    /\ ran' = Append(ran, "compute_metrics")
    /\ UNCHANGED <<df_raw, workdays, missing, df, astype_keeps_na, bdim>>

Next == ValidateColumns \/ HaltMissing \/ NormalizeDf \/ HaltEmpty \/ ComputeMetrics

Spec == Init /\ [][Next]_vars

(***************************************************************************)
(* normalize_df and compute_metrics called directly, on any table that has *)
(* the required columns and with any workdays                              *)
(***************************************************************************)
InitCall ==
    /\ pc = "validated"
    /\ df_raw \in {t \in RawTables : Range(REQUIRED_COLS) \subseteq t.cols}
    /\ workdays \in CallWorkdays
    /\ missing = <<>>
    /\ df = <<>>
    /\ metrics = NotCalled
    /\ reported = "nothing"
    /\ ran = <<>>
    /\ astype_keeps_na \in BOOLEAN
    /\ bdim = NoFrame

NextCall == NormalizeDf \/ ComputeMetrics

SpecCall == InitCall /\ [][NextCall]_vars

(***************************************************************************)
(* Properties                                                              *)
(***************************************************************************)
Returned == metrics.outcome = "returned"

Called(f) == f \in Range(ran)

RiskRank(r) ==
    CASE r.rischio_stockout = "alto" -> 0
      [] r.rischio_stockout = "medio" -> 1
      [] OTHER -> 2

\* C1: the result set of compute_metrics is ordered by risk precedence (alto,
\* medio, basso), within equal risk by valore_unitario descending, and rows
\* equal on both keys keep their input order.
C1_SortedByPriority ==
    Returned =>
        \A i, j \in DOMAIN metrics.rows :
            i < j =>
                LET a == metrics.rows[i]
                    b == metrics.rows[j]
                IN  /\ RiskRank(a) <= RiskRank(b)
                    /\ RiskRank(a) = RiskRank(b)
                         => ~FLt(a.valore_unitario, b.valore_unitario)
                    /\ (RiskRank(a) = RiskRank(b) /\ a.valore_unitario = b.valore_unitario)
                         => a.index < b.index

\* C2: compute_metrics called with workdays <= 0 rejects the call before any
\* per-row metric is computed: the division of line 198 is never performed
\* and no result set is returned.
C2_RejectsNonPositiveWorkdays ==
    (Called("compute_metrics") /\ workdays <= 0) =>
        /\ ~Returned
        /\ 198 \notin Range(metrics.steps)

\* a raw row all of whose six required cells are present and, for the numeric
\* ones, parse as a number
RawRowValid(t, i) ==
    \A j \in DOMAIN REQUIRED_COLS :
        LET c == REQUIRED_COLS[j]
            cell == t.rows[i][c]
        IN  /\ cell # Missing
            /\ c \in NumericCols => ~isna(to_numeric(cell))

\* C3: normalize_df drops every row in which a required field is missing or
\* (numeric ones) not parseable, and keeps every other row.
C3_DropsExactlyInvalidRows ==
    (Called("normalize_df") /\ pc # "raised") =>
        {df[k].index : k \in DOMAIN df}
            = {i - 1 : i \in {l \in DOMAIN df_raw.rows : RawRowValid(df_raw, l)}}

\* the item of Scenario A: optional fields at their defaults, no
\* deviazione_standard
ScenarioA(r) ==
    /\ r.consumo_mensile = IntF(100)
    /\ r.lead_time_giorni = IntF(10)
    /\ r.stock_attuale = IntF(20)
    /\ r.criticita = T_alta
    /\ r.valore_unitario = Norm(1050, 100)
    /\ isna(r.deviazione_standard)
    /\ r.stagionale = T_no
    /\ r.indice_rotazione = IntF(8)
    /\ r.livello_servizio = T_medio

ScenarioAYields(r, punto_riordino, qty) ==
    /\ r.domanda_lt = Norm(1000, 22)
    /\ r.scorta_sicurezza = FMul(Norm(1, 2), r.domanda_lt)
    /\ r.punto_riordino = punto_riordino
    /\ r.qty_suggerita = qty
    /\ r.rischio_stockout = "alto"

\* C4 as stated: Scenario A with workdays = 22 yields domanda_lt = 1000/22,
\* scorta_sicurezza = 0.5 * domanda_lt, punto_riordino = 68, qty_suggerita = 48
\* and rischio_stockout = "alto".
C4_ScenarioA_AsStated ==
    (Returned /\ workdays = 22) =>
        \A i \in DOMAIN metrics.rows :
            ScenarioA(metrics.rows[i]) => ScenarioAYields(metrics.rows[i], 68, 48)

\* C4 amended: Scenario A with workdays = 22 yields domanda_lt = 1000/22,
\* scorta_sicurezza = 0.5 * domanda_lt, punto_riordino = 69 (the ceiling of
\* 68.18), qty_suggerita = 49 and rischio_stockout = "alto".
C4_ScenarioA ==
    (Returned /\ workdays = 22) =>
        \A i \in DOMAIN metrics.rows :
            ScenarioA(metrics.rows[i]) => ScenarioAYields(metrics.rows[i], 69, 49)

C4_Witness ==
    /\ Returned
    /\ workdays = 22
    /\ \E i \in DOMAIN metrics.rows : ScenarioA(metrics.rows[i])

\* max(0, punto_riordino - stock_attuale)
Shortfall(r) ==
    IF FLt(IntF(r.punto_riordino), r.stock_attuale) THEN Zero
    ELSE FSub(IntF(r.punto_riordino), r.stock_attuale)

\* C5 as stated: qty_suggerita is exactly max(0, punto_riordino -
\* stock_attuale), an integer >= 0, for every row of the result, fractional
\* stock included.
C5_QtyIsShortfall ==
    Returned =>
        \A i \in DOMAIN metrics.rows :
            LET r == metrics.rows[i]
            IN  /\ r.qty_suggerita \in Nat
                /\ IntF(r.qty_suggerita) = Shortfall(r)

\* C5 amended: qty_suggerita is the ceiling of max(0, punto_riordino -
\* stock_attuale): the least integer not below it, hence an integer >= 0, and
\* equal to it whenever stock_attuale is an integer.
C5_QtyIsCeilingOfShortfall ==
    Returned =>
        \A i \in DOMAIN metrics.rows :
            LET r == metrics.rows[i]
            IN  /\ r.qty_suggerita \in Nat
                /\ FGe(IntF(r.qty_suggerita), Shortfall(r))
                /\ FLt(IntF(r.qty_suggerita - 1), Shortfall(r))
                /\ IsInteger(r.stock_attuale) => IntF(r.qty_suggerita) = Shortfall(r)

C5_Witness ==
    /\ Returned
    /\ \E i \in DOMAIN metrics.rows :
          /\ ~IsInteger(metrics.rows[i].stock_attuale)
          /\ metrics.rows[i].qty_suggerita > 0

\* C6: on both paths scorta_sicurezza >= 0, hence punto_riordino >=
\* ceiling(domanda_lt) and punto_riordino >= 0, for every row of the result.
C6_SafetyStockNonNegative ==
    Returned =>
        \A i \in DOMAIN metrics.rows :
            LET r == metrics.rows[i]
            IN  /\ FGe(r.scorta_sicurezza, Zero)
                /\ r.punto_riordino >= Ceil(r.domanda_lt)
                /\ r.punto_riordino >= 0

\* the raw deviazione_standard cell of a row of the result is present and numeric
DevNumeric(r) ==
    LET cell == Cell(df_raw, r.index + 1, "deviazione_standard")
    IN  cell # Missing /\ ~isna(to_numeric(cell))

AdvancedFormula(r) ==
    LET sigma == FDiv(r.deviazione_standard, Sqrt(IntF(workdays)))
        base == FMul(FMul(z_from_service(r.livello_servizio), sigma),
                     Sqrt(ClipLower0(r.lead_time_giorni)))
        v == FMul(FMul(FMul(base, season_factor(r.stagionale)),
                       rotation_factor(r.indice_rotazione)),
                  crit_factor(r.criticita))
    IN  IF FLt(v, Zero) THEN Zero ELSE v

SimpleFormula(r) ==
    LET base_pct == CASE r.criticita = T_alta -> Norm(1, 2)
                      [] r.criticita = T_media -> Norm(3, 10)
                      [] OTHER -> Norm(3, 20)
    IN  FMul(FMul(FMul(r.domanda_lt, base_pct), season_factor(r.stagionale)),
             rotation_factor(r.indice_rotazione))

\* every number of the normalised table is finite, deviazione_standard
\* finite or nan
AllFiniteOrNoDev ==
    \A k \in DOMAIN df :
        /\ IsFinite(df[k].consumo_mensile)
        /\ IsFinite(df[k].lead_time_giorni)
        /\ IsFinite(df[k].stock_attuale)
        /\ IsFinite(df[k].deviazione_standard) \/ isna(df[k].deviazione_standard)

\* C7: a row uses the Advanced formula exactly when its deviazione_standard is
\* present and numeric, every other row uses the Simple formula scaled by the
\* season and rotation factors, and no row is failed or dropped because of
\* deviazione_standard.
C7_FormulaSelection ==
    /\ Returned =>
          \A i \in DOMAIN metrics.rows :
              LET r == metrics.rows[i]
              IN  r.scorta_sicurezza
                    = IF DevNumeric(r) THEN AdvancedFormula(r) ELSE SimpleFormula(r)
    /\ (Called("compute_metrics") /\ workdays >= 1 /\ AllFiniteOrNoDev) =>
          (Returned /\ Len(metrics.rows) = Len(df))
    /\ Called("normalize_df") =>
          \A i \in DOMAIN df_raw.rows :
              RawRowValid(df_raw, i) => \E k \in DOMAIN df : df[k].index = i - 1

C7_Witness ==
    /\ Returned
    /\ \E i, j \in DOMAIN metrics.rows :
          /\ DevNumeric(metrics.rows[i])
          /\ FLt(Zero, metrics.rows[i].scorta_sicurezza)
          /\ ~DevNumeric(metrics.rows[j])
          /\ Cell(df_raw, metrics.rows[j].index + 1, "deviazione_standard") # Missing

\* C8: rischio_stockout is exactly one of alto, medio, basso: alto iff
\* stock_attuale < domanda_lt, otherwise medio iff stock_attuale <
\* punto_riordino, otherwise basso; it depends on these three values only.
C8_RiskClassification ==
    Returned =>
        /\ \A i \in DOMAIN metrics.rows :
              LET r == metrics.rows[i]
                  below_lt == FLt(r.stock_attuale, r.domanda_lt)
                  below_rp == FLt(r.stock_attuale, IntF(r.punto_riordino))
              IN  /\ r.rischio_stockout \in {"alto", "medio", "basso"}
                  /\ r.rischio_stockout = "alto" <=> below_lt
                  /\ r.rischio_stockout = "medio" <=> (~below_lt /\ below_rp)
                  /\ r.rischio_stockout = "basso" <=> (~below_lt /\ ~below_rp)
        /\ \A i, j \in DOMAIN metrics.rows :
              LET a == metrics.rows[i]
                  b == metrics.rows[j]
              IN  (/\ a.stock_attuale = b.stock_attuale
                   /\ a.domanda_lt = b.domanda_lt
                   /\ a.punto_riordino = b.punto_riordino)
                    => a.rischio_stockout = b.rischio_stockout

C8_Witness ==
    /\ Returned
    /\ \E i, j \in DOMAIN metrics.rows :
          /\ metrics.rows[i].rischio_stockout = "alto"
          /\ metrics.rows[j].rischio_stockout = "medio"
          /\ ~FLt(metrics.rows[j].stock_attuale, metrics.rows[j].domanda_lt)

\* C9: normalize_df runs only if validate_columns returned an empty list,
\* compute_metrics runs only if normalize_df returned at least one row, a
\* halted pipeline computes nothing further, and the list validate_columns
\* reports is exactly the required columns absent from the input.
C9_PipelineOrdering ==
    /\ Called("normalize_df") =>
          (ran[1] = "validate_columns" /\ missing = <<>>)
    /\ Called("compute_metrics") =>
          (ran = <<"validate_columns", "normalize_df", "compute_metrics">> /\ Len(df) >= 1)
    /\ reported = "Colonne mancanti" =>
          (missing # <<>> /\ ran = <<"validate_columns">> /\ df = <<>>)
    /\ reported = "Nessuna riga valida trovata" =>
          (df = <<>> /\ ran = <<"validate_columns", "normalize_df">>)
    /\ pc = "stopped" => metrics = NotCalled
    /\ Called("validate_columns") =>
          /\ \A j \in DOMAIN REQUIRED_COLS :
                REQUIRED_COLS[j] \in Range(missing) <=> REQUIRED_COLS[j] \notin df_raw.cols
          /\ Cardinality(Range(missing)) = Len(missing)
          /\ df_raw.cols = TEMPLATE_HEADERS \ {"criticita"} => missing = <<"criticita">>

C9_Witness ==
    /\ pc = "stopped"
    /\ missing = <<"criticita">>
    /\ reported = "Colonne mancanti"

\* C10: after normalize_df the criticita of every surviving row is one of
\* bassa, media, alta.
C10_CriticitaClosedEnum ==
    Called("normalize_df") =>
        \A k \in DOMAIN df : df[k].criticita \in {T_bassa, T_media, T_alta}

NonNegativeInputs(r) ==
    /\ FGe(r.consumo_mensile, Zero)
    /\ FGe(r.lead_time_giorni, Zero)
    /\ FGe(r.stock_attuale, Zero)

\* C11: for every row with non-negative consumo_mensile, lead_time_giorni and
\* stock_attuale, rischio_stockout is "basso" if and only if qty_suggerita is
\* 0: every alto or medio row suggests at least 1, no basso row suggests an
\* order.
C11_RiskMatchesOrder ==
    Returned =>
        \A i \in DOMAIN metrics.rows :
            LET r == metrics.rows[i]
            IN  NonNegativeInputs(r) =>
                    /\ r.rischio_stockout = "basso" <=> r.qty_suggerita = 0
                    /\ r.rischio_stockout \in {"alto", "medio"} => r.qty_suggerita >= 1

C11_Witness ==
    /\ Returned
    /\ \E i, j \in DOMAIN metrics.rows :
          /\ NonNegativeInputs(metrics.rows[i])
          /\ metrics.rows[i].rischio_stockout = "basso"
          /\ metrics.rows[i].qty_suggerita = 0
          /\ NonNegativeInputs(metrics.rows[j])
          /\ metrics.rows[j].rischio_stockout = "medio"
          /\ metrics.rows[j].qty_suggerita >= 1

(***************************************************************************)
(* The sidebar's call of business_days_in_month (lines 537-539), one loop  *)
(* iteration per step                                                      *)
(***************************************************************************)
InitDays ==
    /\ pc = "sidebar"
    /\ df_raw = [cols |-> {}, rows |-> <<>>]
    /\ workdays = 0
    /\ missing = <<>>
    /\ df = <<>>
    /\ metrics = NotCalled
    /\ reported = "nothing"
    /\ ran = <<>>
    /\ astype_keeps_na \in BOOLEAN
    /\ \E year \in YearMin..YearMax, month \in 1..12 :
          bdim = [pc |-> "call", year |-> year, month |-> month,
                  cur |-> 0, end |-> 0, count |-> 0]

Frozen == UNCHANGED <<pc, df_raw, missing, df, metrics, reported, ran, astype_keeps_na>>

\* lines 118-120
DaysStart ==
    /\ bdim.pc = "call"
    /\ bdim' = [bdim EXCEPT !.pc = "loop",
                            !.cur = toordinal(bdim.year, bdim.month, 1),
                            !.end = MonthEnd(bdim.year, bdim.month),
                            !.count = 0]
    /\ UNCHANGED workdays
    /\ Frozen

\* lines 121-124: one iteration of the while loop
DaysLoop ==
    /\ bdim.pc = "loop"
    /\ bdim.cur < bdim.end
    /\ bdim' = [bdim EXCEPT !.count = IF weekday(bdim.cur) < 5 THEN @ + 1 ELSE @,
                            !.cur = @ + 1]
    /\ UNCHANGED workdays
    /\ Frozen

\* lines 125 and 539: the loop ends, the count becomes workdays
DaysReturn ==
    /\ bdim.pc = "loop"
    /\ ~(bdim.cur < bdim.end)
    /\ bdim' = [bdim EXCEPT !.pc = "returned"]
    /\ workdays' = bdim.count
    /\ Frozen

NextDays == DaysStart \/ DaysLoop \/ DaysReturn

\* the script runs on: a step that can be taken is taken
SpecDays == InitDays /\ [][NextDays]_vars /\ WF_vars(NextDays)

\* the calendar dates of a month that fall Monday to Friday
WeekdayDates(year, month) ==
    {d \in 1..DaysInMonth(year, month) : weekday(toordinal(year, month, d)) < 5}

====
